---------------------------- MODULE Spec2Model ----------------------------
(***************************************************************************)
(* A model of the ADP -> TalentLMS utilities: the identifier resolver, the *)
(* hierarchy builder and the tree renderer of get_adp_info.py, and the     *)
(* e-mail selection of sync_single_employee.py.                            *)
(*                                                                         *)
(* Python values are tagged records: None, Str(<<chars>>), List(<<..>>)    *)
(* and Dict(<< <<key, value>>, .. >>) (insertion ordered, as a Python      *)
(* dict).  Raise stands for an exception raised by the expression.         *)
(* A string is a tuple of one-character strings.                           *)
(***************************************************************************)
EXTENDS Integers, Sequences, FiniteSets, TLC

VARIABLES
    workers,             \* the collection returned by get_workers()["workers"]
    manager_identifier,  \* argument of print_org_chart
    pc,                  \* position of the running program
    manager_worker,      \* result of find_worker_by_identifier (position; 0 = None)
    manager_map,         \* build_org_hierarchy: manager id -> positions of reports
    worker_map,          \* build_org_hierarchy: id -> position of the record
    stack,               \* print_org_tree: the active calls, outermost first
    out,                 \* lines printed by print_org_tree
    log,                 \* messages printed by print_org_chart / sync_single_employee
    calls,               \* history: the manager_id of every print_org_tree call
    identifier,          \* argument of sync_single_employee
    worker_found,        \* sync_single_employee: worker, the record found (position; 0 = None)
    email,               \* sync_single_employee: the e-mail chosen
    names,               \* sync_single_employee: <<first_name, last_name>>
    arg,                 \* a field extractor called on its own: the record passed
    called,              \* the extractor called
    ret,                 \* what it returned (Raise when it raised)
    accounts,            \* TalentLMS: the e-mails that have an account
    svc_calls,           \* history: the requests made to TalentLMS
    existing_user,       \* what get_user_by_email returned last
    error,               \* the exception that left the operation (None: none)
    employees,           \* import_from_list: employees
    courses_to_assign,   \* import_from_list: courses_to_assign (<<>> for None)
    idx,                 \* import_from_list: the position of the employee at hand
    course_i,            \* import_employee: the position of the course at hand
    result,              \* import_employee: result
    import_log,          \* EmployeeImporter.import_log
    summary,              \* import_from_list: summary
    upstream,            \* the workers the directory holds, in its order
    offset,              \* get_workers: offset of the next page
    all_workers,         \* get_workers: the pages gathered so far
    fetched              \* what get_workers returned (None until it returns)

\* the variables of sync_single_employee
sync == <<identifier, worker_found, email, names>>
\* the variables of a field extractor called on its own
extract == <<arg, called, ret>>
\* the variables of the TalentLMS client
lms == <<accounts, svc_calls, existing_user, error>>
\* the variables of EmployeeImporter
importer == <<employees, courses_to_assign, idx, course_i, result, import_log, summary>>
\* the variables the org chart and the ADP half of the sync flow do not touch
\* the variables of get_workers
fetch == <<upstream, offset, all_workers, fetched>>
others == <<extract, fetch, lms, importer>>

vars == <<workers, manager_identifier, pc, manager_worker, manager_map,
          worker_map, stack, out, log, calls, sync, others>>

---------------------------------------------------------------------------
(* Python values *)

None == [t |-> "null"]
Raise == [t |-> "raise"]
Str(s) == [t |-> "str", s |-> s]
List(xs) == [t |-> "list", xs |-> xs]
Dict(kv) == [t |-> "dict", kv |-> kv]
EmptyDict == Dict(<<>>)
EmptyList == List(<<>>)

\* no field extractor is called on its own
IdleExtract == arg = None /\ called = "" /\ ret = None
\* no request was made to TalentLMS
IdleLms == svc_calls = <<>> /\ existing_user = None /\ error = None
\* no import is running
IdleImporter ==
    /\ employees = <<>>
    /\ courses_to_assign = <<>>
    /\ idx = 0
    /\ course_i = 0
    /\ result = None
    /\ import_log = <<>>
    /\ summary = None
IdleFetch == upstream = <<>> /\ offset = 0 /\ all_workers = <<>> /\ fetched = None
IdleOthers == IdleExtract /\ IdleFetch /\ accounts = {} /\ IdleLms /\ IdleImporter

IsStr(v) == v.t = "str"
IsList(v) == v.t = "list"
IsDict(v) == v.t = "dict"

\* bool(v)
Truthy(v) ==
    CASE v.t = "null" -> FALSE
      [] v.t = "str" -> v.s # <<>>
      [] v.t = "list" -> v.xs # <<>>
      [] v.t = "dict" -> v.kv # <<>>
      [] OTHER -> FALSE

\* key in d
HasKey(d, k) == IsDict(d) /\ \E i \in 1..Len(d.kv) : d.kv[i][1] = k

\* d.get(k, dflt); an attribute error when d is no dict
GetD(d, k, dflt) ==
    IF ~IsDict(d) THEN Raise
    ELSE IF \E i \in 1..Len(d.kv) : d.kv[i][1] = k
         THEN d.kv[CHOOSE i \in 1..Len(d.kv) : d.kv[i][1] = k][2]
         ELSE dflt

\* d.get(k)
Get(d, k) == GetD(d, k, None)

\* a or b
Or(a, b) == IF a = Raise THEN Raise ELSE IF Truthy(a) THEN a ELSE b

\* v[0]
Item0(v) ==
    IF IsList(v) /\ v.xs # <<>> THEN v.xs[1] ELSE Raise

---------------------------------------------------------------------------
(* Python strings *)

UpperChars == <<"A", "B", "C", "D", "E", "F", "G", "H", "I", "J", "K", "L", "M",
                "N", "O", "P", "Q", "R", "S", "T", "U", "V", "W", "X", "Y", "Z">>
LowerChars == <<"a", "b", "c", "d", "e", "f", "g", "h", "i", "j", "k", "l", "m",
                "n", "o", "p", "q", "r", "s", "t", "u", "v", "w", "x", "y", "z">>

LowerChar(c) ==
    IF \E i \in 1..Len(UpperChars) : UpperChars[i] = c
    THEN LowerChars[CHOOSE i \in 1..Len(UpperChars) : UpperChars[i] = c]
    ELSE c

\* s.lower()
Lower(s) == [i \in 1..Len(s) |-> LowerChar(s[i])]

\* s.strip()
Strip(s) ==
    IF \A i \in 1..Len(s) : s[i] = " " THEN <<>>
    ELSE LET a == CHOOSE i \in 1..Len(s) :
                      s[i] # " " /\ \A j \in 1..(i - 1) : s[j] = " "
             b == CHOOSE i \in 1..Len(s) :
                      s[i] # " " /\ \A j \in (i + 1)..Len(s) : s[j] = " "
         IN SubSeq(s, a, b)

\* sub in s
Contains(s, sub) ==
    \E i \in 1..(Len(s) - Len(sub) + 1) : SubSeq(s, i, i + Len(sub) - 1) = sub

\* s.startswith(p)
StartsWith(s, p) == Len(s) >= Len(p) /\ SubSeq(s, 1, Len(p)) = p

HasChar(s, c) == \E i \in 1..Len(s) : s[i] = c

\* s.index(c, from) as a 1-based position; 0 when str.index raises ValueError
IndexFrom(s, c, from) ==
    IF \E i \in from..Len(s) : s[i] = c
    THEN CHOOSE i \in from..Len(s) : s[i] = c /\ \A j \in from..(i - 1) : s[j] # c
    ELSE 0

\* str(v): the identity on a string, "None" for None; the repr of a
\* container is abbreviated to its brackets
PyStr(v) ==
    CASE v.t = "str" -> v.s
      [] v.t = "null" -> <<"N", "o", "n", "e">>
      [] v.t = "list" -> <<"[", "]">>
      [] OTHER -> <<"{", "}">>

Mailto == <<"m", "a", "i", "l", "t", "o", ":">>

\* _clean_email(raw), lines 131-147: None, Str(..) or Raise.  Each step takes
\* the values computed so far as parameters.
\* lines 143-147, with inner = s[start:end].strip()
CleanPick(s, inner) == IF HasChar(inner, "@") THEN Str(Lower(inner)) ELSE Str(s)
\* line 142: end = s.index(">", start) raises ValueError when none follows
CleanCut(s, start, end) ==
    IF end = 0 THEN Raise ELSE CleanPick(s, Strip(SubSeq(s, start, end - 1)))
\* lines 140-141
CleanEnvelope(s) ==
    IF HasChar(s, "<") /\ HasChar(s, "@") /\ HasChar(s, ">")
    THEN CleanCut(s, IndexFrom(s, "<", 1) + 1, IndexFrom(s, ">", IndexFrom(s, "<", 1) + 1))
    ELSE Str(s)
\* lines 136-137
CleanMailto(s) ==
    CleanEnvelope(IF StartsWith(s, Mailto) THEN SubSeq(s, Len(Mailto) + 1, Len(s)) ELSE s)
\* lines 131-133
_clean_email(raw) ==
    IF raw = Raise THEN Raise
    ELSE IF ~Truthy(raw) THEN None
    ELSE CleanMailto(Lower(Strip(PyStr(raw))))

---------------------------------------------------------------------------
(* get_adp_info.py: field extractors *)

\* lines 169-174
RawEmail(eobj) ==
    Or(Get(eobj, "emailUri"),
       Or(Get(eobj, "uri"), Or(Get(eobj, "email"), Get(eobj, "value"))))

\* lines 166-177, the loop from position i: the first truthy cleaned value
\* ("if cleaned: return cleaned"), None when the loop ends without one
RECURSIVE EmailFromList(_, _)
EmailFromList(xs, i) ==
    IF i > Len(xs) THEN None
    ELSE IF ~IsDict(xs[i]) THEN EmailFromList(xs, i + 1)
    ELSE Or(_clean_email(RawEmail(xs[i])), EmailFromList(xs, i + 1))

\* lines 180-190: for key in keys: if key in d: cleaned = ...; if cleaned: return
RECURSIVE EmailFromKeys(_, _, _)
EmailFromKeys(d, keys, i) ==
    IF i > Len(keys) THEN None
    ELSE IF HasKey(d, keys[i])
         THEN Or(_clean_email(Get(d, keys[i])), EmailFromKeys(d, keys, i + 1))
         ELSE EmailFromKeys(d, keys, i + 1)

\* lines 162-177
EmailsLoop(emails) ==
    IF emails = Raise THEN Raise
    ELSE IF IsDict(emails) THEN EmailFromList(<<emails>>, 1)
    ELSE IF IsList(emails) THEN EmailFromList(emails.xs, 1)
    ELSE None

\* line 159
EmailsOf(comm) == EmailsLoop(Or(Get(comm, "emails"), Or(Get(comm, "email"), EmptyList)))

\* lines 158-192, given person
ExtractEmailOf(worker, person) ==
    Or(EmailsOf(Or(Get(person, "communications"),
                   Or(Get(person, "communication"), EmptyDict))),
       Or(EmailFromKeys(worker, <<"workEmail", "email", "emailAddress">>, 1),
          EmailFromKeys(person, <<"email", "emailAddress">>, 1)))

\* extract_email(worker): None, Str(..) or Raise
extract_email(worker) ==
    ExtractEmailOf(worker, Or(GetD(worker, "person", EmptyDict), EmptyDict))

\* lines 106-112: the nested person's associateOID
PersonAssocOf(person) ==
    IF IsDict(person) THEN Get(person, "associateOID") ELSE None
PersonAssoc(person) ==
    PersonAssocOf(IF IsList(person)
                  THEN (IF Truthy(person) THEN person.xs[1] ELSE EmptyDict)
                  ELSE person)

\* lines 120-126
PositionId(position) ==
    IF IsDict(position) THEN Or(Get(position, "idValue"), Get(position, "positionID"))
    ELSE IF IsStr(position) THEN position
    ELSE None

\* an extraction that prefers the structure's own associateOID
ManagerFromRefOwnFirst(reports_to) ==
    IF ~IsDict(reports_to) THEN None
    ELSE Or(Get(reports_to, "associateOID"),
            Or(PersonAssoc(Get(reports_to, "person")),
               PositionId(Get(reports_to, "positionID"))))
\* lines 103-126, reports_to being the structure after the list is unwrapped
ManagerFromRef(reports_to) ==
    IF ~IsDict(reports_to) THEN None
    ELSE Or(PersonAssoc(Get(reports_to, "person")),
            Or(Get(reports_to, "associateOID"),
               PositionId(Get(reports_to, "positionID"))))

\* lines 93-100
ManagerFromReportsTo(reports_to) ==
    IF reports_to = Raise THEN Raise
    ELSE IF ~Truthy(reports_to) THEN None
    ELSE ManagerFromRef(IF IsList(reports_to)
                        THEN Or(reports_to.xs[1], EmptyDict)
                        ELSE reports_to)

\* _extract_manager_id_from_assignment(work_assignment)
_extract_manager_id_from_assignment(work_assignment) ==
    ManagerFromReportsTo(Get(work_assignment, "reportsTo"))

\* w.get("associateOID") or (w.get("workerID") or {}).get("idValue")
DerivedId(w) ==
    Or(Get(w, "associateOID"), Get(Or(Get(w, "workerID"), EmptyDict), "idValue"))

---------------------------------------------------------------------------
(* get_adp_info.py: find_worker_by_identifier *)

\* v.strip() of a name part: Raise when v is no string
StripStr(v) == IF v = Raise \/ ~IsStr(v) THEN Raise ELSE Str(Strip(v.s))

\* line 210
JoinName(first, last) ==
    IF first = Raise \/ last = Raise THEN Raise
    ELSE Str(Strip(first.s \o <<" ">> \o last.s))

\* lines 208-210
FullNameOf(legal) ==
    JoinName(StripStr(Or(Get(legal, "givenName"), Str(<<>>))),
             StripStr(Or(Get(legal, "familyName"), Str(<<>>))))

\* get_full_name(worker)
get_full_name(worker) ==
    FullNameOf(Or(GetD(Or(GetD(worker, "person", EmptyDict), EmptyDict),
                       "legalName", EmptyDict), EmptyDict))

\* lines 229-231: for key in keys: if key in worker: ids.append(str(worker[key]))
RECURSIVE AliasIds(_, _, _)
AliasIds(worker, keys, i) ==
    IF i > Len(keys) THEN <<>>
    ELSE (IF HasKey(worker, keys[i]) THEN <<PyStr(Get(worker, keys[i]))>> ELSE <<>>)
         \o AliasIds(worker, keys, i + 1)

\* line 233: [i.strip().lower() for i in ids if i]
RECURSIVE NormalizeIds(_)
NormalizeIds(ids) ==
    IF ids = <<>> THEN <<>>
    ELSE (IF Head(ids) # <<>> THEN <<Lower(Strip(Head(ids)))>> ELSE <<>>)
         \o NormalizeIds(Tail(ids))

\* lines 217-233, given aoid and w_id
CandidateIds(worker, aoid, w_id) ==
    IF aoid = Raise \/ w_id = Raise THEN Raise
    ELSE List(NormalizeIds(
             (IF Truthy(aoid) THEN <<PyStr(aoid)>> ELSE <<>>)
             \o (IF Truthy(w_id) THEN <<PyStr(w_id)>> ELSE <<>>)
             \o AliasIds(worker, <<"userId", "userID", "login", "username">>, 1)))

\* get_candidate_ids(worker): List of the normalized strings, or Raise
get_candidate_ids(worker) ==
    CandidateIds(worker, Get(worker, "associateOID"),
                 Get(Or(Get(worker, "workerID"), EmptyDict), "idValue"))

\* iter_strings_with_at(obj): the strings yielded, in order
RECURSIVE iter_strings_with_at(_)
RECURSIVE IterEach(_, _)
IterEach(vals, i) ==
    IF i > Len(vals) THEN <<>>
    ELSE iter_strings_with_at(vals[i]) \o IterEach(vals, i + 1)
iter_strings_with_at(obj) ==
    CASE obj.t = "dict" -> IterEach([i \in 1..Len(obj.kv) |-> obj.kv[i][2]], 1)
      [] obj.t = "list" -> IterEach(obj.xs, 1)
      [] obj.t = "str" -> IF HasChar(obj.s, "@") THEN <<obj.s>> ELSE <<>>
      [] OTHER -> <<>>

\* the outcome of one test: 1 match, 0 no match, -1 the test raises

\* lines 248-250
IdTest(ids, target) ==
    IF ids = Raise THEN -1
    ELSE IF \E i \in 1..Len(ids.xs) : ids.xs[i] = target THEN 1 ELSE 0

\* lines 255 and 261: v and target in v.lower()
SubstrTest(v, target) ==
    IF v = Raise THEN -1
    ELSE IF Truthy(v) /\ Contains(Lower(v.s), target) THEN 1 ELSE 0

\* lines 266-269, the loop over the yielded strings from position i
RECURSIVE DeepScan(_, _, _)
DeepHit(cleaned, target, rest) ==
    IF cleaned = Raise THEN -1
    ELSE IF Contains(cleaned.s, target) THEN 1
    ELSE rest
DeepScan(strs, i, target) ==
    IF i > Len(strs) THEN 0
    ELSE DeepHit(Or(_clean_email(Str(strs[i])), Str(Lower(Strip(strs[i])))),
                 target, DeepScan(strs, i + 1, target))

\* the test tier applies to record w
TierEval(tier, w, target) ==
    CASE tier = 1 -> IdTest(get_candidate_ids(w), target)
      [] tier = 2 -> SubstrTest(get_full_name(w), target)
      [] tier = 3 -> SubstrTest(extract_email(w), target)
      [] OTHER -> DeepScan(iter_strings_with_at(w), 1, target)

\* one tier's loop "for w in workers", from position i: the position of the
\* first match, 0 when the loop ends without one, -1 when a test raises first
RECURSIVE TierLoop(_, _, _, _)
\* a loop that keeps the last match instead of returning the first
TierStepLast(r, i, rest) ==
    IF r = -1 THEN -1 ELSE IF rest # 0 THEN rest ELSE IF r = 1 THEN i ELSE 0
TierStep(r, i, rest) == IF r = -1 THEN -1 ELSE IF r = 1 THEN i ELSE rest
TierLoop(tier, ws, i, target) ==
    IF i > Len(ws) THEN 0
    ELSE TierStep(TierEval(tier, ws[i], target), i, TierLoop(tier, ws, i + 1, target))

\* the loops of lines 246-271 in the order given; 0 when none returns
RECURSIVE TierChain(_, _, _)
ChainStep(r, rest) == IF r # 0 THEN r ELSE rest
TierChain(order, ws, target) ==
    IF order = <<>> THEN 0
    ELSE ChainStep(TierLoop(Head(order), ws, 1, target),
                   TierChain(Tail(order), ws, target))

\* a resolver that tries the primary e-mail before the identifiers
TierOrderEmailFirst == <<3, 1, 2, 4>>
\* a resolver without the deep scan
TierOrderNoDeepScan == <<1, 2, 3>>
TierOrder == <<1, 2, 3, 4>>

\* find_worker_by_identifier(workers, identifier): the position of the
\* record returned, 0 for None, -1 when it raises
find_worker_by_identifier(ws, ident) ==
    TierChain(TierOrder, ws, Lower(Strip(ident)))

---------------------------------------------------------------------------
(* get_adp_info.py: build_org_hierarchy *)

\* Python dicts manager_map and worker_map: sequences of <<key, value>> in
\* insertion order
MapHas(m, k) == \E i \in 1..Len(m) : m[i][1] = k
MapIdx(m, k) == CHOOSE i \in 1..Len(m) : m[i][1] = k
\* m.get(k, dflt)
MapGet(m, k, dflt) == IF MapHas(m, k) THEN m[MapIdx(m, k)][2] ELSE dflt
\* m[k] = v
MapPut(m, k, v) ==
    IF MapHas(m, k) THEN [m EXCEPT ![MapIdx(m, k)] = <<k, v>>]
    ELSE Append(m, <<k, v>>)
\* m.setdefault(k, []).insert(0, v)
MapPrepend(m, k, v) == MapPut(m, k, <<v>> \o MapGet(m, k, <<>>))
\* m.setdefault(k, []).append(v)
MapAppend(m, k, v) == MapPut(m, k, Append(MapGet(m, k, <<>>), v))

\* lines 298-300
ManagerOfAssignments(work_assignments) ==
    IF work_assignments = Raise THEN Raise
    ELSE IF Truthy(work_assignments)
         THEN _extract_manager_id_from_assignment(Item0(work_assignments))
         ELSE None

\* an extraction that falls back to a reportsTo beside the assignment list
ManagerRefTopLevel(w) ==
    IF Truthy(Or(GetD(w, "workAssignments", EmptyList), EmptyList))
    THEN ManagerOfAssignments(Or(GetD(w, "workAssignments", EmptyList), EmptyList))
    ELSE ManagerFromReportsTo(Get(w, "reportsTo"))
\* lines 297-300: the manager reference of a record, from its first assignment
ManagerRef(w) ==
    ManagerOfAssignments(Or(GetD(w, "workAssignments", EmptyList), EmptyList))

\* lines 302-306: the bucket a manager reference selects
BucketKey(manager_id) == IF Truthy(manager_id) THEN manager_id ELSE None

\* an index that does not skip the records without identifier
IndexOneNoSkip(wm, aoid, i) == MapPut(wm, aoid, i)
\* lines 286-289 for the record at position i
IndexOne(wm, aoid, i) == IF ~Truthy(aoid) THEN wm ELSE MapPut(wm, aoid, i)

\* first pass, from position i
RECURSIVE IndexPass(_, _, _)
IndexPass(ws, i, wm) ==
    IF i > Len(ws) THEN wm
    ELSE IndexPass(ws, i + 1, IndexOne(wm, DerivedId(ws[i]), i))

\* a second pass whose append to the None bucket is not under the else
LinkOneAlsoTop(mm, w, i) ==
    IF ~Truthy(DerivedId(w)) THEN mm
    ELSE IF Truthy(ManagerRef(w))
         THEN MapAppend(MapAppend(mm, ManagerRef(w), i), None, i)
         ELSE MapAppend(mm, None, i)
\* a second pass that does not skip the records without identifier
LinkOneNoSkip(mm, w, i) == MapAppend(mm, BucketKey(ManagerRef(w)), i)
\* a second pass that puts a record that names itself as manager in the
\* None bucket as well
LinkOneSelfAlsoTop(mm, w, i) ==
    IF ~Truthy(DerivedId(w)) THEN mm
    ELSE IF ManagerRef(w) = DerivedId(w)
         THEN MapAppend(MapAppend(mm, None, i), ManagerRef(w), i)
         ELSE MapAppend(mm, BucketKey(ManagerRef(w)), i)
\* lines 293-306 for the record w at position i
LinkOne(mm, w, i) ==
    IF ~Truthy(DerivedId(w)) THEN mm
    ELSE MapAppend(mm, BucketKey(ManagerRef(w)), i)

\* second pass, from position i
RECURSIVE LinkPass(_, _, _)
LinkPass(ws, i, mm) ==
    IF i > Len(ws) THEN mm
    ELSE LinkPass(ws, i + 1, LinkOne(mm, ws[i], i))

\* build_org_hierarchy(workers): records are held by position in workers;
\* Raise when an extraction raises
build_org_hierarchy(ws) ==
    IF \E i \in 1..Len(ws) :
           \/ DerivedId(ws[i]) = Raise
           \/ Truthy(DerivedId(ws[i])) /\ ManagerRef(ws[i]) = Raise
    THEN Raise
    ELSE [t |-> "maps",
          manager_map |-> LinkPass(ws, 1, <<>>),
          worker_map |-> IndexPass(ws, 1, <<>>)]

---------------------------------------------------------------------------
(* get_adp_info.py: print_org_tree *)

IndentStep == 4

Unknown == <<"U", "n", "k", "n", "o", "w", "n">>

Spaces(n) == [i \in 1..n |-> " "]

\* lines 320-323, and 370-373
TitleOf(wa) ==
    IF Truthy(wa) THEN Or(Get(Item0(wa), "jobTitle"), Str(Unknown))
    ELSE Str(Unknown)

\* lines 318 and 325
FormatLine(indent, name, family, title) ==
    IF name = Raise \/ family = Raise \/ title = Raise THEN Raise
    ELSE Str(Spaces(indent) \o <<"-", " ">>
             \o Strip(PyStr(name) \o <<" ">> \o PyStr(family))
             \o <<" ", "(">> \o PyStr(title) \o <<")">>)

\* lines 316-317
LineOf(indent, legal, title) ==
    FormatLine(indent, GetD(legal, "givenName", Str(Unknown)),
               GetD(legal, "familyName", Str(<<>>)), title)

\* lines 316-325: the line printed for emp at the given indent, as Str(..),
\* or Raise
TreeLine(emp, indent) ==
    LineOf(indent, GetD(GetD(emp, "person", EmptyDict), "legalName", EmptyDict),
           TitleOf(GetD(emp, "workAssignments", EmptyList)))

\* a call print_org_tree(manager_map, worker_map, manager_id, indent) whose
\* loop is about to take employees[pos]
Frame(manager_id, indent) == [manager_id |-> manager_id, pos |-> 1, indent |-> indent]

---------------------------------------------------------------------------
(* The inputs: records of the shapes ADP returns, and identifiers *)

MaxWorkers == 3

sA1 == <<"a", "1">>
sB2 == <<"b", "2">>
sC3 == <<"c", "3">>
sE5 == <<"e", "5">>
sF6 == <<"f", "6">>
sG9 == <<"g", "9">>
sJoCo == <<"j", "o", "@", "c", "o", ".", "c", "o", "m">>
sJOCo == <<"J", "O", "@", "c", "o", ".", "c", "o", "m">>
sCSO == <<"C", "S", "O">>

LegalName(given, family) ==
    <<"legalName", Dict(<< <<"givenName", Str(given)>>, <<"familyName", Str(family)>> >>)>>
Emails(uri) == <<"emails", List(<< Dict(<< <<"emailUri", Str(uri)>> >>) >>)>>

\* the first record of the two-record scenario: a1, Jo Smith, a personal
\* e-mail given as a mailto: URI, no assignment
wJo == Dict(<< <<"associateOID", Str(sA1)>>,
               <<"person", Dict(<< LegalName(<<"J", "o">>, <<"S", "m", "i", "t", "h">>),
                                   <<"communication", Dict(<< Emails(Mailto \o sJOCo) >>)>> >>)>> >>)
\* the second: b2, Ann Lee, reporting to a1 (reportsTo a list, person an object)
wAnn == Dict(<< <<"associateOID", Str(sB2)>>,
                <<"person", Dict(<< LegalName(<<"A", "n", "n">>, <<"L", "e", "e">>) >>)>>,
                <<"workAssignments", List(<<
                    Dict(<< <<"reportsTo", List(<<
                        Dict(<< <<"person", Dict(<< <<"associateOID", Str(sA1)>> >>)>> >>) >>)>> >>) >>)>> >>)
\* identified by workerID only, no name, a business e-mail, a job title,
\* reporting to b2 (associateOID directly under reportsTo)
wCy == Dict(<< <<"workerID", Dict(<< <<"idValue", Str(sC3)>> >>)>>,
               <<"businessCommunication", Dict(<< Emails(sJoCo) >>)>>,
               <<"workAssignments", List(<<
                   Dict(<< <<"jobTitle", Str(sCSO)>>,
                           <<"reportsTo", Dict(<< <<"associateOID", Str(sB2)>> >>)>> >>) >>)>> >>)
\* no identifier; a login alias; reporting to position g9
wAl == Dict(<< <<"login", Str(sJOCo)>>,
               <<"person", Dict(<< LegalName(<<"A", "l">>, <<"M", "o", "s", "s">>) >>)>>,
               <<"workAssignments", List(<<
                   Dict(<< <<"reportsTo", Dict(<< <<"positionID", Str(sG9)>> >>)>> >>) >>)>> >>)
\* a second record with identifier a1, which names itself as its manager
\* (person a list)
wDup == Dict(<< <<"associateOID", Str(sA1)>>,
                <<"person", Dict(<< LegalName(<<"J", "o">>, <<"L", "e", "e">>) >>)>>,
                <<"workAssignments", List(<<
                    Dict(<< <<"reportsTo", Dict(<< <<"person", List(<<
                        Dict(<< <<"associateOID", Str(sA1)>> >>) >>)>> >>)>> >>) >>)>> >>)
\* an empty assignment list beside a populated top-level reportsTo
wEm == Dict(<< <<"associateOID", Str(sE5)>>,
               <<"person", Dict(<< LegalName(<<"E", "m">>, <<"L", "e", "e">>) >>)>>,
               <<"reportsTo", Dict(<< <<"associateOID", Str(sA1)>> >>)>>,
               <<"workAssignments", EmptyList>> >>)
\* two assignments: the first reporting to a position no record is
\* identified by (positionID an object), the second reporting to a1
wGh == Dict(<< <<"associateOID", Str(sF6)>>,
               <<"person", Dict(<< LegalName(<<"G", "i">>, <<"H", "o">>) >>)>>,
               <<"workAssignments", List(<<
                   Dict(<< <<"reportsTo", Dict(<< <<"positionID",
                        Dict(<< <<"idValue", Str(sG9)>> >>)>> >>)>> >>),
                   Dict(<< <<"reportsTo", Dict(<< <<"associateOID", Str(sA1)>> >>)>> >>) >>)>> >>)

WorkerPool == {wJo, wAnn, wCy, wAl, wDup, wEm, wGh}

WorkerLists == UNION {[1..n -> WorkerPool] : n \in 0..MaxWorkers}

\* print_org_chart(): None; print_org_chart(manager_identifier=...): a string
Identifiers == {None, Str(<<" ", "A", "1", " ">>), Str(sB2), Str(<<"j", "o">>),
                Str(sJoCo), Str(<<"z", "z">>)}

---------------------------------------------------------------------------
(* get_adp_info.py: print_org_chart, as the steps of one run *)

\* the nesting of print_org_tree calls at which the interpreter raises
\* RecursionError; larger than the depth of any acyclic chart of the model
RecursionLimit == MaxWorkers + 2

Init ==
    /\ workers \in WorkerLists
    /\ manager_identifier \in Identifiers
    /\ pc = "start"
    /\ manager_worker = 0
    /\ manager_map = <<>>
    /\ worker_map = <<>>
    /\ stack = <<>>
    /\ out = <<>>
    /\ log = <<>>
    /\ calls = <<>>
    /\ identifier = <<>>
    /\ worker_found = 0
    /\ email = None
    /\ names = <<>>
    /\ IdleOthers

\* lines 340-342
ChartNoWorkers ==
    /\ pc = "start"
    /\ workers = <<>>
    /\ log' = Append(log, "No workers found.")
    /\ pc' = "done"
    /\ UNCHANGED <<workers, manager_identifier, manager_worker, manager_map,
                   worker_map, stack, out, calls, sync, others>>

\* line 344, h being what build_org_hierarchy returns
Built(h) ==
    IF h = Raise
    THEN /\ pc' = "raised"
         /\ UNCHANGED <<manager_map, worker_map>>
    ELSE /\ pc' = "built"
         /\ manager_map' = h.manager_map
         /\ worker_map' = h.worker_map

\* line 344
ChartBuild ==
    /\ pc = "start"
    /\ workers # <<>>
    /\ Built(build_org_hierarchy(workers))
    /\ UNCHANGED <<workers, manager_identifier, manager_worker, stack, out, log, calls, sync, others>>

\* line 348: what find_worker_by_identifier returns
Resolved == find_worker_by_identifier(workers, manager_identifier.s)

\* lines 347-351: the identifier matches no record
ChartNotFound ==
    /\ pc = "built"
    /\ Truthy(manager_identifier)
    /\ Resolved = 0
    /\ manager_worker' = 0
    /\ log' = Append(log, "Could not find any worker matching")
    /\ pc' = "done"
    /\ UNCHANGED <<workers, manager_identifier, manager_map, worker_map, stack, out, calls, sync, others>>

\* lines 353-361, r being the position of the record found
NoId(r) ==
    /\ r > 0
    /\ ~Truthy(DerivedId(workers[r]))
    /\ manager_worker' = r

\* lines 347-361: a record matches but has no identifier
ChartNoId ==
    /\ pc = "built"
    /\ Truthy(manager_identifier)
    /\ NoId(Resolved)
    /\ log' = Append(log, "Found worker, but they have no associateOID/workerID.")
    /\ pc' = "done"
    /\ UNCHANGED <<workers, manager_identifier, manager_map, worker_map, stack, out, calls, sync, others>>

\* lines 364-377: the name and title of the heading, or Raise
ChartHeading(w) ==
    LineOf(0, Or(GetD(GetD(w, "person", EmptyDict), "legalName", EmptyDict), EmptyDict),
           TitleOf(Or(GetD(w, "workAssignments", EmptyList), EmptyList)))

\* lines 353-378, r being the position of the record found
Subtree(r) ==
    /\ r > 0
    /\ Truthy(DerivedId(workers[r]))
    /\ manager_worker' = r
    /\ IF ChartHeading(workers[r]) = Raise
       THEN /\ pc' = "raised"
            /\ UNCHANGED <<stack, log, calls>>
       ELSE /\ pc' = "render"
            /\ log' = Append(log, "ORG CHART UNDER")
            /\ stack' = <<Frame(DerivedId(workers[r]), 0)>>
            /\ calls' = <<DerivedId(workers[r])>>

\* lines 347-378: a record matches; print the heading and call
\* print_org_tree(manager_map, worker_map, manager_id=manager_id, indent=0)
ChartSubtree ==
    /\ pc = "built"
    /\ Truthy(manager_identifier)
    /\ Subtree(Resolved)
    /\ UNCHANGED <<workers, manager_identifier, manager_map, worker_map, out, sync, others>>

\* lines 382-384: print_org_tree(manager_map, worker_map, manager_id=None, indent=0)
ChartFull ==
    /\ pc = "built"
    /\ ~Truthy(manager_identifier)
    /\ log' = Append(log, "FULL ORG CHART")
    /\ stack' = <<Frame(None, 0)>>
    /\ calls' = <<None>>
    /\ pc' = "render"
    /\ UNCHANGED <<workers, manager_identifier, manager_worker, manager_map,
                   worker_map, out, sync, others>>

\* the innermost active call and the bucket its loop runs over (line 313)
Top == stack[Len(stack)]
\* a loop over the reports of indexed managers only
EmployeesIndexedOnly(frame) ==
    IF frame.manager_id = None \/ MapHas(worker_map, frame.manager_id)
    THEN MapGet(manager_map, frame.manager_id, <<>>)
    ELSE <<>>
Employees(frame) == MapGet(manager_map, frame.manager_id, <<>>)
\* the report the loop of the innermost call takes next (line 314)
Emp == workers[Employees(Top)[Top.pos]]

\* a nested call that is passed the caller's indent
EmitNoIndent(aoid, line) ==
    IF aoid = Raise \/ line = Raise
    THEN /\ pc' = "raised"
         /\ UNCHANGED <<stack, out, calls>>
    ELSE /\ out' = Append(out, line.s)
         /\ stack' = Append([stack EXCEPT ![Len(stack)].pos = @ + 1],
                            Frame(aoid, Top.indent))
         /\ calls' = Append(calls, aoid)
         /\ pc' = pc
\* a nested call that is passed the caller's manager_id
EmitSameManager(aoid, line) ==
    IF aoid = Raise \/ line = Raise
    THEN /\ pc' = "raised"
         /\ UNCHANGED <<stack, out, calls>>
    ELSE /\ out' = Append(out, line.s)
         /\ stack' = Append([stack EXCEPT ![Len(stack)].pos = @ + 1],
                            Frame(Top.manager_id, Top.indent + IndentStep))
         /\ calls' = Append(calls, Top.manager_id)
         /\ pc' = pc
\* a loop that does not descend into a manager key it has descended into
EmitVisited(aoid, line) ==
    IF aoid = Raise \/ line = Raise
    THEN /\ pc' = "raised"
         /\ UNCHANGED <<stack, out, calls>>
    ELSE /\ out' = Append(out, line.s)
         /\ pc' = pc
         /\ IF \E n \in 1..Len(calls) : calls[n] = aoid
            THEN /\ stack' = [stack EXCEPT ![Len(stack)].pos = @ + 1]
                 /\ UNCHANGED calls
            ELSE /\ stack' = Append([stack EXCEPT ![Len(stack)].pos = @ + 1],
                                    Frame(aoid, Top.indent + IndentStep))
                 /\ calls' = Append(calls, aoid)
\* lines 315-328 for one report: print its line, then call print_org_tree
\* for its bucket
Emit(aoid, line) ==
    IF aoid = Raise \/ line = Raise
    THEN /\ pc' = "raised"
         /\ UNCHANGED <<stack, out, calls>>
    ELSE /\ out' = Append(out, line.s)
         /\ stack' = Append([stack EXCEPT ![Len(stack)].pos = @ + 1],
                            Frame(aoid, Top.indent + IndentStep))
         /\ calls' = Append(calls, aoid)
         /\ pc' = pc

\* lines 314-328, one iteration of the loop of the innermost call
TreeEmit ==
    /\ pc = "render"
    /\ stack # <<>>
    /\ Top.pos <= Len(Employees(Top))
    /\ Len(stack) < RecursionLimit
    /\ Emit(DerivedId(Emp), TreeLine(Emp, Top.indent))
    /\ UNCHANGED <<workers, manager_identifier, manager_worker, manager_map,
                   worker_map, log, sync, others>>

\* lines 314-328 at the interpreter's recursion limit: the line is printed
\* and the nested call raises RecursionError
TreeOverflow ==
    /\ pc = "render"
    /\ stack # <<>>
    /\ Top.pos <= Len(Employees(Top))
    /\ Len(stack) >= RecursionLimit
    /\ out' = Append(out, TreeLine(Emp, Top.indent).s)
    /\ pc' = "overflow"
    /\ UNCHANGED <<workers, manager_identifier, manager_worker, manager_map,
                   worker_map, stack, log, calls, sync, others>>

\* line 314: the loop of the innermost call ends and the call returns; the
\* outermost return ends the chart (lines 379, 385, printed by print_org_chart,
\* which has printed its heading before; a print_org_tree called on its own
\* prints nothing more)
TreeReturn ==
    /\ pc = "render"
    /\ stack # <<>>
    /\ Top.pos > Len(Employees(Top))
    /\ stack' = SubSeq(stack, 1, Len(stack) - 1)
    /\ IF Len(stack) = 1
       THEN /\ log' = IF log = <<>> THEN log ELSE Append(log, "END ORG CHART")
            /\ pc' = "done"
       ELSE UNCHANGED <<log, pc>>
    /\ UNCHANGED <<workers, manager_identifier, manager_worker, manager_map,
                   worker_map, out, calls, sync, others>>

Next ==
    \/ ChartNoWorkers
    \/ ChartBuild
    \/ ChartNotFound
    \/ ChartNoId
    \/ ChartSubtree
    \/ ChartFull
    \/ TreeEmit
    \/ TreeOverflow
    \/ TreeReturn

Spec == Init /\ [][Next]_vars

---------------------------------------------------------------------------
(* print_org_tree called on its own, on the maps build_org_hierarchy returns *)

\* the roots asked for: the top of the hierarchy, a manager reference no
\* record is identified by, the identifier of a record
TreeRoots == {None, Str(sG9), Str(sA1)}

InitTree ==
    /\ workers \in WorkerLists \ {<<>>}
    /\ manager_identifier = None
    /\ pc = "start"
    /\ manager_worker = 0
    /\ manager_map = <<>>
    /\ worker_map = <<>>
    /\ stack = <<>>
    /\ out = <<>>
    /\ log = <<>>
    /\ calls = <<>>
    /\ identifier = <<>>
    /\ worker_found = 0
    /\ email = None
    /\ names = <<>>
    /\ IdleOthers

\* lines 311-313: print_org_tree(manager_map, worker_map, manager_id=root, indent=0)
TreeCall ==
    /\ pc = "built"
    /\ \E root \in TreeRoots :
           /\ stack' = <<Frame(root, 0)>>
           /\ calls' = <<root>>
    /\ pc' = "render"
    /\ UNCHANGED <<workers, manager_identifier, manager_worker, manager_map,
                   worker_map, out, log, sync, others>>

NextTree ==
    \/ ChartBuild
    \/ TreeCall
    \/ TreeEmit
    \/ TreeOverflow
    \/ TreeReturn

SpecTree == InitTree /\ [][NextTree]_vars
\* lines 313-328, the control of print_org_tree alone: what a step of the
\* render (TreeEmit, TreeOverflow, TreeReturn) does to stack and pc
control == <<stack, pc>>
TreeAdvance ==
    /\ pc = "render"
    /\ stack # <<>>
    /\ IF Top.pos > Len(Employees(Top))
       THEN /\ stack' = SubSeq(stack, 1, Len(stack) - 1)
            /\ pc' = IF Len(stack) = 1 THEN "done" ELSE pc
       ELSE IF Len(stack) >= RecursionLimit
            THEN /\ pc' = "overflow"
                 /\ stack' = stack
            ELSE \/ /\ stack' = Append([stack EXCEPT ![Len(stack)].pos = @ + 1],
                                       Frame(DerivedId(Emp), Top.indent + IndentStep))
                    /\ pc' = pc
                 \/ /\ pc' = "raised"
                    /\ stack' = stack

\* the interpreter runs the one thread of the program: a render that has a
\* next step takes it
SpecTreeFair == SpecTree /\ WF_control(TreeAdvance)

---------------------------------------------------------------------------
(* import_employees.py: TalentLMSClient *)

\* What a request to TalentLMS ends in: "ok", a 2xx response with a JSON
\* body; "404", "409", "500", a response with that status; "transport", no
\* response, the request not served; "timeout", no response, the request
\* served; "malformed", a 2xx response whose body is no JSON.
FaultOutcomes == {"500", "transport", "timeout", "malformed"}

\* the number of requests of one run that TalentLMS or the network fails
MaxFaults == 1

\* exceptions
HTTPError(code) == [t |-> "raise", exc |-> "HTTPError", code |-> code]
RequestError == [t |-> "raise", exc |-> "ConnectionError", code |-> ""]
DecodeError == [t |-> "raise", exc |-> "JSONDecodeError", code |-> ""]
KeyError == [t |-> "raise", exc |-> "KeyError", code |-> ""]
IsRaise(v) == v.t = "raise"

\* the id TalentLMS gives the account of e-mail address e
UserId(e) == [t |-> "id", of |-> e]
\* the user object TalentLMS answers with
User(e) == [t |-> "user", id |-> UserId(e)]
\* bool(v) of a response body
IsUser(v) == v.t = "user"

\* _make_request, lines 44-61: the body returned or the exception raised
_make_request(outcome, body) ==
    CASE outcome = "ok" -> body
      [] outcome \in {"404", "409", "500"} -> HTTPError(outcome)
      [] outcome \in {"transport", "timeout"} -> RequestError
      [] OTHER -> DecodeError

\* get_user_by_email, lines 134-143, r being what _make_request does
get_user_by_email(r) ==
    IF ~IsRaise(r) THEN r
    ELSE IF r.exc = "HTTPError"
         THEN (IF r.code = "404" THEN None ELSE r)
         ELSE None

\* create_user, line 93
create_user(outcome, e) == _make_request(outcome, User(e))

\* add_user_to_course, line 113
add_user_to_course(outcome) == _make_request(outcome, EmptyDict)

\* TalentLMS and the network: the requests failed so far, and the outcomes a
\* request can end in
NumFaults ==
    Cardinality({i \in 1..Len(svc_calls) : svc_calls[i].outcome \in FaultOutcomes})
MayFail(outcomes) == IF NumFaults < MaxFaults THEN outcomes ELSE {}
LookupOutcomes(e) ==
    {IF e \in accounts THEN "ok" ELSE "404"} \cup MayFail({"500", "transport", "malformed"})
CreateOutcomes(e) ==
    IF e \in accounts THEN {"409"} \cup MayFail({"500", "transport"})
    ELSE {"ok"} \cup MayFail(FaultOutcomes)
EnrollOutcomes == {"ok"} \cup MayFail({"500"})
\* the accounts after a create request for e that ended in outcome
Served(e, outcome) ==
    IF outcome \in {"ok", "timeout", "malformed"} THEN accounts \cup {e} ELSE accounts
\* a request is made: for the e-mail address e (lookup, create) or the user
\* id e (enroll)
Requested(op, e, course, outcome) ==
    svc_calls' = Append(svc_calls,
                        [op |-> op, email |-> e, course |-> course, outcome |-> outcome])

---------------------------------------------------------------------------
(* sync_single_employee.py *)

\* lines 37-39 and 47-49
FirstEmailUri(emails) ==
    IF emails = Raise THEN Raise
    ELSE IF Truthy(emails) THEN Get(Item0(emails), "emailUri")
    ELSE None

\* worker_work_email(worker)
worker_work_email(w) ==
    FirstEmailUri(Or(GetD(Or(GetD(w, "businessCommunication", EmptyDict), EmptyDict),
                          "emails", EmptyList), EmptyList))

\* worker_personal_email(worker)
worker_personal_email(w) ==
    FirstEmailUri(Or(GetD(Or(GetD(Or(GetD(w, "person", EmptyDict), EmptyDict),
                                  "communication", EmptyDict), EmptyDict),
                          "emails", EmptyList), EmptyList))

\* (worker.get("person", {}) or {}).get("legalName", {}) or {}
LegalOf(w) ==
    Or(GetD(Or(GetD(w, "person", EmptyDict), EmptyDict), "legalName", EmptyDict), EmptyDict)

\* s.strip(", ")
StripCommaSpace(s) ==
    IF \A i \in 1..Len(s) : s[i] \in {",", " "} THEN <<>>
    ELSE SubSeq(s,
                CHOOSE i \in 1..Len(s) :
                    s[i] \notin {",", " "} /\ \A j \in 1..(i - 1) : s[j] \in {",", " "},
                CHOOSE i \in 1..Len(s) :
                    s[i] \notin {",", " "} /\ \A j \in (i + 1)..Len(s) : s[j] \in {",", " "})

\* lines 57-59
LastFirst(first, last) ==
    IF first = Raise \/ last = Raise THEN Raise
    ELSE Str(StripCommaSpace(PyStr(last) \o <<",", " ">> \o PyStr(first)))

\* lines 55-59, given legal
FullNameFrom(legal) ==
    IF legal = Raise THEN Raise
    ELSE IF HasKey(legal, "formattedName") /\ Truthy(Get(legal, "formattedName"))
         THEN Get(legal, "formattedName")
    ELSE LastFirst(Or(GetD(legal, "givenName", Str(<<>>)), Str(<<>>)),
                   Or(GetD(legal, "familyName1", Str(<<>>)), Str(<<>>)))

\* worker_full_name(worker)
worker_full_name(w) == FullNameFrom(LegalOf(w))

\* worker_first_last(worker)
worker_first_last(w) ==
    <<Or(Get(LegalOf(w), "givenName"), Str(<<>>)),
      Or(Get(LegalOf(w), "familyName1"), Str(<<>>))>>

\* v and v.lower() == ident_lower: 1 match, 0 no match, -1 raises
EqualsLower(v, ident_lower) ==
    IF v = Raise THEN -1
    ELSE IF ~Truthy(v) THEN 0
    ELSE IF ~IsStr(v) THEN -1
    ELSE IF Lower(v.s) = ident_lower THEN 1 ELSE 0

\* lines 84-90: both e-mails are extracted, then compared in turn
EmailTest(work_email, personal_email, ident_lower) ==
    IF work_email = Raise \/ personal_email = Raise THEN -1
    ELSE IF EqualsLower(work_email, ident_lower) # 0
         THEN EqualsLower(work_email, ident_lower)
         ELSE EqualsLower(personal_email, ident_lower)

\* line 100-101: name = worker_full_name(w).lower(); name == ident_lower
NameTest(name, ident_lower) ==
    IF name = Raise \/ ~IsStr(name) THEN -1
    ELSE IF Lower(name.s) = ident_lower THEN 1 ELSE 0

\* the test step applies to record w
SyncEval(step, w, ident_lower) ==
    CASE step = 1 -> EmailTest(worker_work_email(w), worker_personal_email(w), ident_lower)
      [] step = 2 -> EqualsLower(Get(Or(GetD(w, "workerID", EmptyDict), EmptyDict), "idValue"),
                                 ident_lower)
      [] OTHER -> NameTest(worker_full_name(w), ident_lower)

\* one loop "for w in workers" of lines 83-102, from position i
RECURSIVE SyncLoop(_, _, _, _)
SyncLoop(step, ws, i, ident_lower) ==
    IF i > Len(ws) THEN 0
    ELSE TierStep(SyncEval(step, ws[i], ident_lower), i,
                  SyncLoop(step, ws, i + 1, ident_lower))

\* the loops of lines 82-105 in the order given
RECURSIVE SyncChain(_, _, _)
SyncChain(order, ws, ident_lower) ==
    IF order = <<>> THEN 0
    ELSE ChainStep(SyncLoop(Head(order), ws, 1, ident_lower),
                   SyncChain(Tail(order), ws, ident_lower))

\* find_worker_by_identifier(workers, identifier) of sync_single_employee.py:
\* the position of the record returned, 0 for None, -1 when it raises
sync_find_worker_by_identifier(ws, ident) ==
    SyncChain(IF HasChar(ident, "@") THEN <<1, 2, 3>> ELSE <<2, 3>>, ws, Lower(ident))

\* an extraction that prefers the personal e-mail
SyncEmailPersonalFirst(w) == Or(worker_personal_email(w), worker_work_email(w))
\* line 128: worker_work_email(worker) or worker_personal_email(worker)
SyncEmail(w) == Or(worker_work_email(w), worker_personal_email(w))

\* lines 133-136
SyncNames(first_last) ==
    IF ~Truthy(first_last[1]) /\ ~Truthy(first_last[2])
    THEN <<Str(Unknown), Str(<<"U", "s", "e", "r">>)>>
    ELSE first_last

MaxSyncWorkers == 2

sW == <<"w", "@", "c", "o">>
sP == <<"p", "@", "c", "o">>
sWUpper == <<"W", "@", "c", "o">>

\* the businessCommunication of a record: absent, or holding the e-mails given
WorkShapes ==
    { <<>>,
      << <<"businessCommunication", Dict(<< Emails(sWUpper) >>)>> >>,
      << <<"businessCommunication", Dict(<< Emails(<<>>) >>)>> >>,
      << <<"businessCommunication",
           Dict(<< <<"emails", List(<< EmptyDict >>)>> >>)>> >>,
      << <<"businessCommunication",
           Dict(<< <<"emails", List(<< Dict(<< <<"emailUri", Str(<<>>)>> >>),
                                      Dict(<< <<"emailUri", Str(sW)>> >>) >>)>> >>)>> >> }

\* the person of a record: a name, with or without a personal e-mail
PersonShapes ==
    { << <<"person", Dict(<< LegalName(<<"J", "o">>, <<"S", "m", "i", "t", "h">>) >>)>> >>,
      << <<"person", Dict(<< <<"legalName", Dict(<< <<"formattedName",
                                 Str(<<"L", "e", "e", ",", " ", "A", "n", "n">>)>> >>)>>,
                             <<"communication", Dict(<< Emails(sP) >>)>> >>)>> >> }

\* records with workerID c3, the two substructures in either order
SyncPool ==
    {Dict(<< <<"workerID", Dict(<< <<"idValue", Str(sC3)>> >>)>> >> \o a \o b) :
         a \in WorkShapes, b \in PersonShapes}
    \cup {Dict(b \o a \o << <<"workerID", Dict(<< <<"idValue", Str(sC3)>> >>)>> >>) :
              a \in WorkShapes, b \in PersonShapes}

SyncLists == UNION {[1..n -> SyncPool] : n \in 0..MaxSyncWorkers}

SyncIdentifiers == {sW, sP, <<"C", "3">>, <<"l", "e", "e", ",", " ", "a", "n", "n">>,
                    <<"z", "z">>}

\* TalentLMS holds no account, or one for each e-mail of the records
SyncAccounts == {{}, {Str(sWUpper), Str(sP)}}

InitSync ==
    /\ workers \in SyncLists
    /\ identifier \in SyncIdentifiers
    /\ pc = "sync"
    /\ manager_identifier = None
    /\ manager_worker = 0
    /\ manager_map = <<>>
    /\ worker_map = <<>>
    /\ stack = <<>>
    /\ out = <<>>
    /\ log = <<>>
    /\ calls = <<>>
    /\ worker_found = 0
    /\ email = None
    /\ names = <<>>
    /\ IdleExtract
    /\ IdleFetch
    /\ accounts \in SyncAccounts
    /\ IdleLms
    /\ IdleImporter

org == <<manager_identifier, manager_worker, manager_map, worker_map, stack, out, calls>>

\* lines 120-123: no record matches
SyncNotFound ==
    /\ pc = "sync"
    /\ sync_find_worker_by_identifier(workers, identifier) = 0
    /\ log' = Append(log, "No matching worker found in ADP.")
    /\ pc' = "done"
    /\ UNCHANGED <<workers, org, sync, others>>

\* lines 128-131, r being the position of the record found
NoEmail(r) ==
    /\ r > 0
    /\ ~Truthy(SyncEmail(workers[r]))
    /\ SyncEmail(workers[r]) # Raise
    /\ worker_found' = r

\* lines 120-131: the record found has no e-mail
SyncNoEmail ==
    /\ pc = "sync"
    /\ NoEmail(sync_find_worker_by_identifier(workers, identifier))
    /\ log' = Append(log, "This worker has no email in ADP")
    /\ pc' = "done"
    /\ UNCHANGED <<workers, org, others, identifier, email, names>>

\* lines 128-139, r being the position of the record found
UseEmail(r) ==
    /\ r > 0
    /\ Truthy(SyncEmail(workers[r]))
    /\ worker_found' = r
    /\ email' = SyncEmail(workers[r])
    /\ names' = SyncNames(worker_first_last(workers[r]))

\* lines 120-146: the record found has an e-mail, which is handed to the
\* TalentLMS lookup
SyncUseEmail ==
    /\ pc = "sync"
    /\ UseEmail(sync_find_worker_by_identifier(workers, identifier))
    /\ log' = Append(log, "Using email")
    /\ pc' = "lookup"
    /\ UNCHANGED <<workers, org, others, identifier>>

\* lines 146-156, r being what get_user_by_email returned or raised
SyncLooked(r) ==
    IF IsRaise(r)
    THEN /\ error' = r
         /\ pc' = "raised"
         /\ UNCHANGED <<existing_user, log>>
    ELSE /\ existing_user' = r
         /\ error' = error
         /\ IF IsUser(r)
            THEN /\ log' = Append(log, "User already exists in TalentLMS.")
                 /\ pc' = "done"
            ELSE /\ log' = Append(log, "User does not exist in TalentLMS. Creating...")
                 /\ pc' = "create"

\* lines 144-156: the lookup
SyncLookup ==
    /\ pc = "lookup"
    /\ \E o \in LookupOutcomes(email) :
           /\ Requested("lookup", email, 0, o)
           /\ SyncLooked(get_user_by_email(_make_request(o, User(email))))
    /\ UNCHANGED <<workers, org, sync, accounts, extract, fetch, importer>>

\* lines 159-172, r being what create_user returned or raised
SyncCreated(r) ==
    IF IsRaise(r)
    THEN /\ error' = r
         /\ pc' = "raised"
         /\ log' = log
    ELSE /\ error' = error
         /\ log' = Append(log, "Successfully created TalentLMS user:")
         /\ pc' = "done"

\* lines 159-172: the account is created
SyncCreate ==
    /\ pc = "create"
    /\ \E o \in CreateOutcomes(email) :
           /\ Requested("create", email, 0, o)
           /\ accounts' = Served(email, o)
           /\ SyncCreated(create_user(o, email))
    /\ UNCHANGED <<workers, org, sync, existing_user, extract, fetch, importer>>

NextSync ==
    \/ SyncNotFound
    \/ SyncNoEmail
    \/ SyncUseEmail
    \/ SyncLookup
    \/ SyncCreate

SpecSync == InitSync /\ [][NextSync]_vars

---------------------------------------------------------------------------
(* The field extractors called on their own, on records of every shape *)

\* a key the record does not hold
Absent == [t |-> "absent"]
Field(k, v) == IF v = Absent THEN <<>> ELSE << <<k, v>> >>

\* the shapes a substructure comes in, objs being its well-formed objects:
\* absent, null, an empty list, a scalar, a single object, a list of
\* objects, a list whose first element is null
ShapesOf(objs) ==
    {Absent, None, EmptyList, Str(<<"x">>)}
    \cup objs
    \cup {List(<<g>>) : g \in objs}
    \cup {List(<<None, g>>) : g \in objs}

sM1 == <<"m", "1">>

\* person.communication.emails and businessCommunication.emails
ShapedEmails == ShapesOf({Dict(<< <<"emailUri", Str(sP)>> >>)})
ShapedComms == ShapesOf({Dict(Field("emails", e)) : e \in ShapedEmails})
EmailRecords ==
    {Dict(Field("person", p)) :
         p \in ShapesOf({Dict(Field("communication", c)) : c \in ShapedComms})}
WorkEmailRecords == {Dict(Field("businessCommunication", b)) : b \in ShapedComms}

\* workAssignments[0].reportsTo.person
ShapedReportsTo ==
    ShapesOf({Dict(Field("person", q)) :
                  q \in ShapesOf({Dict(<< <<"associateOID", Str(sM1)>> >>)})})
ManagerRecords ==
    {Dict(<< <<"associateOID", Str(sA1)>> >> \o Field("workAssignments", a)) :
         a \in ShapesOf({Dict(Field("reportsTo", r)) : r \in ShapedReportsTo})}

\* person.legalName.givenName
ShapedLegalNames ==
    ShapesOf({Dict(Field("givenName", g)) : g \in ShapesOf({Str(<<"J", "o">>)})})
NameRecords ==
    {Dict(Field("person", p)) :
         p \in ShapesOf({Dict(Field("legalName", l)) : l \in ShapedLegalNames})}

\* reportsTo structures that carry the three sources of a manager reference
\* side by side: person.associateOID, associateOID, positionID
sP1 == <<"p", "1">>
sT2 == <<"t", "2">>
sQ3 == <<"q", "3">>
Assoc(v) == Dict(Field("associateOID", v))
RefPersons ==
    {Absent, None, EmptyDict, EmptyList, Assoc(Str(sP1)), Assoc(Str(<<>>)),
     List(<<Assoc(Str(sP1)), Assoc(Str(sT2))>>), List(<<EmptyDict, Assoc(Str(sT2))>>)}
RefAssocs == {Absent, Str(<<>>), Str(sT2)}
RefPositions ==
    {Absent, Str(sQ3), Str(<<>>), Dict(<< <<"idValue", Str(sQ3)>> >>),
     Dict(<< <<"idValue", Str(<<>>)>>, <<"positionID", Str(sQ3)>> >>)}
Refs ==
    {Dict(Field("person", q) \o Field("associateOID", a) \o Field("positionID", o)) :
         q \in RefPersons, a \in RefAssocs, o \in RefPositions}
\* the reference alone, or first in a list before another reference
WrappedRefs == Refs \cup {List(<<r, Assoc(Str(sM1))>>) : r \in Refs}
\* the reference in the only assignment, or in the first of two
PriorityRecords ==
    {Dict(<< <<"associateOID", Str(sA1)>>,
             <<"workAssignments", List(<<Dict(Field("reportsTo", r))>> \o more)>> >>) :
         r \in WrappedRefs,
         more \in {<<>>, <<Dict(Field("reportsTo", Assoc(Str(sM1))))>>}}

\* candidate e-mail substructures side by side: person.communications and
\* person.communication, each with emails and email, whose objects carry the
\* address e, an empty address or no field
Uri(v) == Dict(Field("emailUri", v))
EmailLists(e) ==
    {Absent, EmptyList, List(<<EmptyDict>>), List(<<Uri(Str(<<>>))>>),
     List(<<Uri(Str(e))>>), List(<<EmptyDict, Uri(Str(e))>>)}
CommsWith(e) ==
    {Absent, EmptyDict}
    \cup {Dict(Field("emails", l)) : l \in EmailLists(e)}
    \cup {Dict(<< <<"emails", List(<<EmptyDict>>)>>, <<"email", List(<<Uri(Str(e))>>)>> >>)}
FallThroughRecords ==
    {Dict(<< <<"person", Dict(Field("communications", c) \o Field("communication", d))>> >>) :
         c \in CommsWith(sW), d \in CommsWith(sP)}
    \cup {Dict(Field("businessCommunication", c)) : c \in CommsWith(sW)}

ExtractPool ==
    EmailRecords \cup WorkEmailRecords \cup ManagerRecords \cup NameRecords
    \cup PriorityRecords \cup FallThroughRecords

\* the org chart and the sync flow are not running
IdleChart ==
    /\ workers = <<>>
    /\ manager_identifier = None
    /\ manager_worker = 0
    /\ manager_map = <<>>
    /\ worker_map = <<>>
    /\ stack = <<>>
    /\ out = <<>>
    /\ log = <<>>
    /\ calls = <<>>
IdleSync ==
    /\ identifier = <<>>
    /\ worker_found = 0
    /\ email = None
    /\ names = <<>>

InitExtract ==
    /\ arg \in ExtractPool
    /\ called = ""
    /\ ret = None
    /\ pc = "call"
    /\ IdleChart
    /\ IdleSync
    /\ IdleFetch
    /\ accounts = {}
    /\ IdleLms
    /\ IdleImporter

\* extractor f is called on the record and returns v, or raises (v = Raise)
Call(f, v) ==
    /\ pc = "call"
    /\ called' = f
    /\ ret' = v
    /\ pc' = "returned"
    /\ UNCHANGED <<arg, workers, org, log, sync, fetch, lms, importer>>

CallExtractEmail == Call("extract_email", extract_email(arg))
\* lines 297-300 of build_org_hierarchy, which hand the first assignment to
\* _extract_manager_id_from_assignment
CallExtractManager == Call("_extract_manager_id_from_assignment", ManagerRef(arg))
CallWorkEmail == Call("worker_work_email", worker_work_email(arg))
CallPersonalEmail == Call("worker_personal_email", worker_personal_email(arg))
CallFullName == Call("get_full_name", get_full_name(arg))

NextExtract ==
    \/ CallExtractEmail
    \/ CallExtractManager
    \/ CallWorkEmail
    \/ CallPersonalEmail
    \/ CallFullName

SpecExtract == InitExtract /\ [][NextExtract]_vars

---------------------------------------------------------------------------
(* import_employees.py: EmployeeImporter *)

MaxEmployees == 2

\* employees: with all fields, without the names, without the e-mail
Employee(e, named) ==
    Dict(Field("email", e)
         \o (IF named
             THEN << <<"first_name", Str(<<"T">>)>>, <<"last_name", Str(<<"1">>)>> >>
             ELSE <<>>))
EmployeePool ==
    {Employee(Str(sW), TRUE), Employee(Str(sP), TRUE), Employee(Str(sW), FALSE),
     Employee(Absent, TRUE)}
EmployeeLists == UNION {[1..n -> EmployeePool] : n \in 0..MaxEmployees}

\* lines 164-170
NewResult(employee) ==
    [email |-> Get(employee, "email"), status |-> "pending", user_id |-> None,
     errors |-> <<>>, courses_assigned |-> <<>>]
\* lines 206-208
Failed(res, exc) == [res EXCEPT !.status = "failed", !.errors = Append(@, exc.exc)]
\* line 197: where import_employee goes on once the account is known
AfterAccount(user_id) ==
    IF courses_to_assign # <<>> /\ user_id # None THEN "imp_enroll" ELSE "imp_finish"

InitImport ==
    /\ employees \in EmployeeLists
    /\ courses_to_assign \in {<<>>, <<1, 2>>}
    /\ accounts \in {{}, {Str(sW)}}
    /\ idx = 1
    /\ course_i = 0
    /\ result = None
    /\ import_log = <<>>
    /\ summary = [total |-> Len(employees), success |-> 0, skipped |-> 0, failed |-> 0]
    /\ pc = "import"
    /\ IdleChart
    /\ IdleSync
    /\ IdleExtract
    /\ IdleFetch
    /\ IdleLms

\* an import that goes on to create the account although it exists
ImpLookedCreateAnyway(employee, r) ==
    IF IsRaise(r)
    THEN /\ result' = Failed(NewResult(employee), r)
         /\ pc' = "imp_finish"
         /\ UNCHANGED existing_user
    ELSE /\ existing_user' = r
         /\ result' = NewResult(employee)
         /\ pc' = "imp_create"
\* lines 176-181, r being what get_user_by_email returned or raised
ImpLooked(employee, r) ==
    IF IsRaise(r)
    THEN /\ result' = Failed(NewResult(employee), r)
         /\ pc' = "imp_finish"
         /\ UNCHANGED existing_user
    ELSE /\ existing_user' = r
         /\ IF IsUser(r)
            THEN /\ result' = [NewResult(employee) EXCEPT
                                   !.status = "skipped", !.user_id = r.id,
                                   !.errors = <<"User already exists">>]
                 /\ pc' = AfterAccount(r.id)
            ELSE /\ result' = NewResult(employee)
                 /\ pc' = "imp_create"

\* lines 280-283 and 164-181: the next employee is taken and looked up
ImpLookup ==
    /\ pc = "import"
    /\ idx <= Len(employees)
    /\ HasKey(employees[idx], "email")
    /\ \E o \in LookupOutcomes(Get(employees[idx], "email")) :
           /\ Requested("lookup", Get(employees[idx], "email"), 0, o)
           /\ ImpLooked(employees[idx],
                        get_user_by_email(_make_request(o, User(Get(employees[idx], "email")))))
    /\ course_i' = 1
    /\ UNCHANGED <<workers, org, log, sync, extract, fetch, accounts, error, employees,
                   courses_to_assign, idx, import_log, summary>>

\* lines 174 and 206-209: employee['email'] raises KeyError, and raises it
\* again in the print of the handler, which leaves import_employee and
\* import_from_list
ImpNoEmail ==
    /\ pc = "import"
    /\ idx <= Len(employees)
    /\ ~HasKey(employees[idx], "email")
    /\ result' = Failed(NewResult(employees[idx]), KeyError)
    /\ error' = KeyError
    /\ pc' = "raised"
    /\ UNCHANGED <<workers, org, log, sync, extract, fetch, accounts, svc_calls, existing_user,
                   employees, courses_to_assign, idx, course_i, import_log, summary>>

\* lines 192-194 and 206-209, r being what create_user returned or raised
ImpCreated(r) ==
    IF IsRaise(r)
    THEN /\ result' = Failed(result, r)
         /\ pc' = "imp_finish"
    ELSE /\ result' = [result EXCEPT !.user_id = r.id, !.status = "success"]
         /\ pc' = AfterAccount(r.id)

\* lines 183-194: the account is created
ImpCreate ==
    /\ pc = "imp_create"
    /\ HasKey(employees[idx], "first_name")
    /\ HasKey(employees[idx], "last_name")
    /\ \E o \in CreateOutcomes(result.email) :
           /\ Requested("create", result.email, 0, o)
           /\ accounts' = Served(result.email, o)
           /\ ImpCreated(create_user(o, result.email))
    /\ UNCHANGED <<workers, org, log, sync, extract, fetch, existing_user, error, employees,
                   courses_to_assign, idx, course_i, import_log, summary>>

\* lines 184-185 and 206-209: employee['first_name'] raises KeyError before
\* any request is made
ImpNoName ==
    /\ pc = "imp_create"
    /\ ~(HasKey(employees[idx], "first_name") /\ HasKey(employees[idx], "last_name"))
    /\ result' = Failed(result, KeyError)
    /\ pc' = "imp_finish"
    /\ UNCHANGED <<workers, org, log, sync, extract, fetch, lms, employees,
                   courses_to_assign, idx, course_i, import_log, summary>>

\* lines 199-204, r being what add_user_to_course returned or raised
Enrolled(res, course_id, r) ==
    IF IsRaise(r)
    THEN [res EXCEPT !.errors = Append(@, "Failed to assign course")]
    ELSE [res EXCEPT !.courses_assigned = Append(@, course_id)]

\* lines 198-204: one iteration of the loop over the courses
ImpEnroll ==
    /\ pc = "imp_enroll"
    /\ course_i <= Len(courses_to_assign)
    /\ \E o \in EnrollOutcomes :
           /\ Requested("enroll", result.user_id, courses_to_assign[course_i], o)
           /\ result' = Enrolled(result, courses_to_assign[course_i], add_user_to_course(o))
    /\ course_i' = course_i + 1
    /\ pc' = IF course_i = Len(courses_to_assign) THEN "imp_finish" ELSE "imp_enroll"
    /\ UNCHANGED <<workers, org, log, sync, extract, fetch, accounts, existing_user, error,
                   employees, courses_to_assign, idx, import_log, summary>>

\* lines 285-290
Counted(sm, status) ==
    IF status = "success" THEN [sm EXCEPT !.success = @ + 1]
    ELSE IF status = "skipped" THEN [sm EXCEPT !.skipped = @ + 1]
    ELSE [sm EXCEPT !.failed = @ + 1]

\* lines 211-212 and 285-290: import_employee returns its result, which
\* import_from_list counts
ImpFinish ==
    /\ pc = "imp_finish"
    /\ import_log' = Append(import_log, result)
    /\ summary' = Counted(summary, result.status)
    /\ idx' = idx + 1
    /\ pc' = "import"
    /\ UNCHANGED <<workers, org, log, sync, extract, fetch, lms, employees,
                   courses_to_assign, course_i, result>>

\* line 292
ImpReturn ==
    /\ pc = "import"
    /\ idx > Len(employees)
    /\ pc' = "done"
    /\ UNCHANGED <<workers, org, log, sync, extract, fetch, lms, importer>>

NextImport ==
    \/ ImpLookup
    \/ ImpNoEmail
    \/ ImpCreate
    \/ ImpNoName
    \/ ImpEnroll
    \/ ImpFinish
    \/ ImpReturn

SpecImport == InitImport /\ [][NextImport]_vars

---------------------------------------------------------------------------
(* get_workers (get_adp_info.py, and the same loop in get_adp_employees.py) *)

\* line 31
limit == 50
MaxUpstream == 101

Min(a, b) == IF a < b THEN a ELSE b
\* the directory with n workers, each standing for itself
Upstream(n) == [i \in 1..n |-> i]
\* lines 34-44: the page the directory serves for offset and limit
Page(off) == SubSeq(upstream, off + 1, Min(off + limit, Len(upstream)))
\* a loop that also stops after a full page
LastPage_Mutant(workers_) == Len(workers_) <= limit
\* line 46
LastPage(workers_) == Len(workers_) < limit

InitFetch ==
    /\ upstream \in {Upstream(n) : n \in 0..MaxUpstream}
    /\ offset = 0
    /\ all_workers = <<>>
    /\ fetched = None
    /\ pc = "token"
    /\ IdleChart
    /\ IdleSync
    /\ IdleExtract
    /\ accounts = {}
    /\ IdleLms
    /\ IdleImporter

\* line 28: get_adp_token returns the token
FetchToken ==
    /\ pc = "token"
    /\ pc' = "page"
    /\ UNCHANGED <<workers, org, log, sync, others>>

\* lines 9-24: the token request fails and raise_for_status raises
FetchTokenFails ==
    /\ pc = "token"
    /\ pc' = "raised"
    /\ UNCHANGED <<workers, org, log, sync, others>>

\* lines 45-48, workers_ being the page received
Gathered(workers_) ==
    /\ all_workers' = all_workers \o workers_
    /\ IF LastPage(workers_)
       THEN /\ fetched' = List(all_workers \o workers_)
            /\ pc' = "fetched"
            /\ UNCHANGED offset
       ELSE /\ offset' = offset + limit
            /\ pc' = "page"
            /\ UNCHANGED fetched

\* lines 33-50: one iteration of the loop, the request being served
FetchPage ==
    /\ pc = "page"
    /\ Gathered(Page(offset))
    /\ UNCHANGED <<workers, org, log, sync, upstream, extract, lms, importer>>

\* lines 35-43: the page request fails and raise_for_status raises
FetchPageFails ==
    /\ pc = "page"
    /\ pc' = "raised"
    /\ UNCHANGED <<workers, org, log, sync, others>>

NextFetch ==
    \/ FetchToken
    \/ FetchTokenFails
    \/ FetchPage
    \/ FetchPageFails

SpecFetch == InitFetch /\ [][NextFetch]_vars

---------------------------------------------------------------------------
(* The identifier resolver (find_worker_by_identifier of get_adp_info.py) *)

\* print_org_chart has called find_worker_by_identifier, manager_worker
\* holds what it returned and print_org_tree, if called, has not yet recursed
\* (no step of the rendering assigns workers, manager_identifier or
\* manager_worker)
Searched ==
    /\ workers # <<>>
    /\ Truthy(manager_identifier)
    /\ pc \in {"done", "render"}
    /\ Len(calls) <= 1

Target == Lower(Strip(manager_identifier.s))
Tiers == 1..4
\* the record at position i matches the target at tier k
Matches(k, i) == TierEval(k, workers[i], Target) = 1
TierHasMatch(k) == \E i \in 1..Len(workers) : Matches(k, i)
\* k is the lowest-numbered tier with any match
Winning(k) == TierHasMatch(k) /\ \A j \in 1..(k - 1) : ~TierHasMatch(j)
NoMatch == \A k \in Tiers : ~TierHasMatch(k)

\* C1: the record returned matches at the lowest-numbered tier that has any
\* match; in particular a tier-1 match is returned even when a record that
\* matches only at a later tier comes earlier in the collection.
C1_TierOrdering ==
    Searched =>
        \A k \in Tiers :
            Winning(k) => manager_worker > 0 /\ Matches(k, manager_worker)

\* C1 witness: a tier-1 match was returned although an earlier record
\* matches on its primary e-mail and neither on an identifier nor on its name
C1_Witness ==
    /\ Searched
    /\ manager_worker > 1
    /\ Matches(1, manager_worker)
    /\ \E i \in 1..(manager_worker - 1) :
           Matches(3, i) /\ ~Matches(1, i) /\ ~Matches(2, i)

\* C2: within the winning tier the record returned is the one with the
\* smallest position among all records matching at that tier.
C2_FirstInTier ==
    Searched =>
        \A k \in Tiers :
            Winning(k) =>
                \A j \in 1..Len(workers) : Matches(k, j) => manager_worker <= j

\* C2 witness: two records tie on the winning tier and the earlier is returned
C2_Witness ==
    /\ Searched
    /\ manager_worker > 0
    /\ \E k \in Tiers :
           /\ Winning(k)
           /\ \E j \in (manager_worker + 1)..Len(workers) : Matches(k, j)

\* C3: find_worker_by_identifier returns None exactly when no record matches
\* at any tier, as a return value and not an exception; print_org_chart then
\* reports that it found no worker and returns without rendering.
C3_NotFound ==
    /\ (pc = "built" /\ Truthy(manager_identifier)) =>
           (Resolved = 0 <=> NoMatch)
    /\ Searched =>
           /\ manager_worker = 0 <=> NoMatch
           /\ manager_worker = 0 =>
                  /\ pc = "done"
                  /\ log = <<"Could not find any worker matching">>
                  /\ out = <<>>
                  /\ calls = <<>>

\* C3 witness: a search over a non-empty collection ended not-found
C3_Witness ==
    /\ Searched
    /\ NoMatch
    /\ manager_worker = 0
    /\ log = <<"Could not find any worker matching">>

---------------------------------------------------------------------------
(* The hierarchy builder (build_org_hierarchy) *)

\* build_org_hierarchy has just returned manager_map and worker_map (line
\* 344; nothing after it assigns either)
Built_ == workers # <<>> /\ pc = "built"

Positions == 1..Len(workers)
HasId(i) == Truthy(DerivedId(workers[i]))
Identified == {i \in Positions : HasId(i)}
\* N - K
NumIdentified == Cardinality(Identified)
DistinctIds == {DerivedId(workers[i]) : i \in Identified}

RECURSIVE SumBuckets(_)
SumBuckets(m) == IF m = <<>> THEN 0 ELSE Len(Head(m)[2]) + SumBuckets(Tail(m))

\* the places <<bucket, position in the bucket>> that hold record i
PlacesOf(i) ==
    {pl \in {<<e, q>> : e \in 1..Len(manager_map), q \in Positions} :
         /\ pl[2] <= Len(manager_map[pl[1]][2])
         /\ manager_map[pl[1]][2][pl[2]] = i}
KeyOfEntry(e) == manager_map[e][1]
NoneBucket == MapGet(manager_map, None, <<>>)
InSeq(x, q) == \E n \in 1..Len(q) : q[n] = x

\* C4 as stated: N-K entries in the Record Index, bucket sizes summing to N-K.
C4_Original ==
    Built_ =>
        /\ Len(worker_map) = NumIdentified
        /\ SumBuckets(manager_map) = NumIdentified

\* C4 (amended): the Record Index has one entry per distinct derivable
\* identifier (N-K entries when the identifiers are pairwise distinct) and
\* the bucket sizes of the Hierarchy Mapping sum to N-K.
C4_Counts ==
    Built_ =>
        /\ Len(worker_map) = Cardinality(DistinctIds)
        /\ {worker_map[e][1] : e \in 1..Len(worker_map)} = DistinctIds
        /\ Cardinality(DistinctIds) = NumIdentified
               => Len(worker_map) = NumIdentified
        /\ SumBuckets(manager_map) = NumIdentified

\* C4 witness: a collection with a record without identifier and two
\* records sharing one has been indexed
C4_Witness ==
    /\ Built_
    /\ NumIdentified < Len(workers)
    /\ Len(worker_map) < NumIdentified
    /\ SumBuckets(manager_map) = NumIdentified

\* C5: every record with a derivable identifier is in exactly one place of
\* the Hierarchy Mapping: in the bucket keyed by its manager reference when
\* it has one, in the None bucket otherwise.
C5_OneBucket ==
    Built_ =>
        /\ \A e1, e2 \in 1..Len(manager_map) :
               KeyOfEntry(e1) = KeyOfEntry(e2) => e1 = e2
        /\ \A i \in Identified :
               /\ Cardinality(PlacesOf(i)) = 1
               /\ \A pl \in PlacesOf(i) :
                      KeyOfEntry(pl[1]) =
                          IF Truthy(ManagerRef(workers[i]))
                          THEN ManagerRef(workers[i]) ELSE None

\* C5 witness: one record sits under its manager and another, without a
\* manager, in the None bucket
C5_Witness ==
    /\ Built_
    /\ \E i, j \in Identified :
           /\ Truthy(ManagerRef(workers[i]))
           /\ InSeq(i, MapGet(manager_map, ManagerRef(workers[i]), <<>>))
           /\ ~Truthy(ManagerRef(workers[j]))
           /\ InSeq(j, NoneBucket)

\* C6: a record without identifier is in no bucket and not in the Record
\* Index, and every key of the Hierarchy Mapping is the bucket key of some
\* record that has an identifier.
C6_Excluded ==
    Built_ =>
        /\ \A i \in Positions \ Identified :
               /\ PlacesOf(i) = {}
               /\ \A e \in 1..Len(worker_map) : worker_map[e][2] # i
        /\ \A e \in 1..Len(manager_map) :
               \E j \in Identified :
                   KeyOfEntry(e) = BucketKey(ManagerRef(workers[j]))

\* C6 witness: a record without identifier names a manager, and neither the
\* record nor that manager's key is in the Hierarchy Mapping
C6_Witness ==
    /\ Built_
    /\ manager_map # <<>>
    /\ \E i \in Positions \ Identified :
           /\ Truthy(ManagerRef(workers[i]))
           /\ ~MapHas(manager_map, ManagerRef(workers[i]))
           /\ PlacesOf(i) = {}

\* the assignment list of the record at position i is absent, null or empty
NoAssignments(i) ==
    ~Truthy(GetD(workers[i], "workAssignments", EmptyList))

\* C7: for a record whose assignment list is empty or absent the manager
\* reference is None, whatever else the record holds, and the record (if
\* it has an identifier) is in the None bucket.
C7_NoAssignment ==
    Built_ =>
        \A i \in Positions :
            NoAssignments(i) =>
                /\ ManagerRef(workers[i]) = None
                /\ HasId(i) => InSeq(i, NoneBucket)

\* C7 witness: a record with an empty assignment list and a populated
\* reportsTo of its own is in the None bucket
C7_Witness ==
    /\ Built_
    /\ \E i \in Identified :
           /\ Get(workers[i], "workAssignments") = EmptyList
           /\ Truthy(Get(workers[i], "reportsTo"))
           /\ InSeq(i, NoneBucket)

---------------------------------------------------------------------------
(* The tree renderer (print_org_tree) *)

\* a chart was rendered to its end
Rendered == pc = "done" /\ calls # <<>>

\* The pre-order listing of the tree under manager key m: for each report of
\* m's bucket in bucket order, its line indented by width * depth, then the
\* listing under the report, then the next report.  fuel bounds the nesting.
RECURSIVE PreOrder(_, _, _, _)
RECURSIVE PreOrderFrom(_, _, _, _, _)
PreOrderFrom(bucket, n, depth, width, fuel) ==
    IF n > Len(bucket) THEN <<>>
    ELSE <<TreeLine(workers[bucket[n]], width * depth).s>>
         \o PreOrder(DerivedId(workers[bucket[n]]), depth + 1, width, fuel - 1)
         \o PreOrderFrom(bucket, n + 1, depth, width, fuel)
PreOrder(m, depth, width, fuel) ==
    IF fuel = 0 THEN <<>>
    ELSE PreOrderFrom(MapGet(manager_map, m, <<>>), 1, depth, width, fuel)

\* the number of spaces a line starts with
LeadingSpaces(line) ==
    IF \A n \in 1..Len(line) : line[n] = " " THEN Len(line)
    ELSE (CHOOSE n \in 1..Len(line) :
              line[n] # " " /\ \A q \in 1..(n - 1) : line[q] = " ") - 1

\* C8 as stated: a pre-order listing whose lines are indented by the indent
\* width times the depth, the width being 2 in the two-record scenario.
C8_Original ==
    /\ Rendered => out = PreOrder(calls[1], 0, 2, RecursionLimit)
    /\ (Rendered /\ workers = <<wJo, wAnn>> /\ manager_identifier = None) =>
           out = << <<"-", " ", "J", "o", " ", "S", "m", "i", "t", "h", " ",
                      "(", "U", "n", "k", "n", "o", "w", "n", ")">>,
                    <<" ", " ", "-", " ", "A", "n", "n", " ", "L", "e", "e", " ",
                      "(", "U", "n", "k", "n", "o", "w", "n", ")">> >>

\* C8 (amended): the lines printed are the pre-order listing of the tree
\* under the root, each report's line followed by the whole listing under
\* that report before the next sibling, in bucket order; a line at depth d
\* is indented by 4 * d spaces (the two-record scenario prints
\* "- Jo Smith (Unknown)" and "    - Ann Lee (Unknown)").
C8_PreOrder ==
    /\ Rendered => out = PreOrder(calls[1], 0, 4, RecursionLimit)
    /\ (Rendered /\ workers = <<wJo, wAnn>> /\ manager_identifier = None) =>
           out = << <<"-", " ", "J", "o", " ", "S", "m", "i", "t", "h", " ",
                      "(", "U", "n", "k", "n", "o", "w", "n", ")">>,
                    <<" ", " ", " ", " ", "-", " ", "A", "n", "n", " ", "L", "e", "e", " ",
                      "(", "U", "n", "k", "n", "o", "w", "n", ")">> >>

\* C8 witness: a chart was rendered in which a report's own report was
\* printed before the report's next sibling
C8_Witness ==
    /\ Rendered
    /\ \E n \in 1..(Len(out) - 2) :
           /\ LeadingSpaces(out[n]) = 0
           /\ LeadingSpaces(out[n + 1]) = 4
           /\ LeadingSpaces(out[n + 2]) = 0

\* the identifiers of the reports in the bucket of manager key m
ChildIds(m) == {DerivedId(workers[i]) : i \in {j \in Positions : InSeq(j, MapGet(manager_map, m, <<>>))}}
RECURSIVE ReachFrom(_, _)
ReachFrom(S, n) ==
    IF n = 0 THEN S ELSE ReachFrom(S \cup UNION {ChildIds(m) : m \in S}, n - 1)
\* the identifiers below manager key m
Descendants(m) == ReachFrom(ChildIds(m), Len(workers))
\* the manager graph (edges from a bucket's key to the identifiers of its
\* reports) has no cycle
Acyclic ==
    \A m \in {KeyOfEntry(e) : e \in 1..Len(manager_map)} : m \notin Descendants(m)

\* a render is under way or over
Rendering == pc \in {"render", "done", "overflow"} /\ calls # <<>>
\* no manager key was passed to print_org_tree twice
NoRevisit == \A a, b \in 1..Len(calls) : calls[a] = calls[b] => a = b
\* each nested call is one level (4 columns) deeper than its caller
DepthByOne == \A k \in 1..Len(stack) : stack[k].indent = 4 * (k - 1)

\* C9 as stated: over an acyclic manager graph the depth grows by one per
\* level and no identifier is expanded twice.
C9_Original == (Rendering /\ Acyclic) => (DepthByOne /\ NoRevisit)

\* C9 (amended): over an acyclic manager graph whose identified records
\* have pairwise distinct identifiers, the depth grows by one per level and
\* no identifier is expanded twice.
C9_NoRevisit ==
    (Rendering /\ Cardinality(DistinctIds) = NumIdentified /\ Acyclic)
        => (DepthByOne /\ NoRevisit)

\* C9 witness: a three-level chain of distinct identifiers is being rendered
C9_Witness ==
    /\ pc = "render"
    /\ Acyclic
    /\ Cardinality(DistinctIds) = NumIdentified
    /\ Len(stack) >= 4
    /\ Len(calls) >= 4

---------------------------------------------------------------------------
(* The e-mail chosen by sync_single_employee *)

\* the emailUri of the first businessCommunication e-mail of the record, and
\* of its first person.communication e-mail (Raise when there is none)
WorkUri(w) == Get(Item0(Get(Get(w, "businessCommunication"), "emails")), "emailUri")
PersonalUri(w) ==
    Get(Item0(Get(Get(Get(w, "person"), "communication"), "emails")), "emailUri")
\* the position of key k among the keys of the record
KeyPos(w, k) == CHOOSE i \in 1..Len(w.kv) : w.kv[i][1] = k

\* the sync flow has chosen the e-mail of the record found
Chosen == pc = "lookup" /\ worker_found > 0

---------------------------------------------------------------------------
(* The field extractors on malformed records *)

\* an extractor has returned or raised
Returned == pc = "returned"

\* C11: whatever the shape of the record's substructures (absent, null, a
\* single object, a list of objects, an empty list, a scalar, a null first
\* list element), each field extractor returns an optional value and does
\* not raise.
C11_NeverRaises == Returned => ret # Raise


\* the i-th request to the Account Service failed for a reason other than
\* the account not existing
FailedCall(i, ops) ==
    svc_calls[i].op \in ops /\ svc_calls[i].outcome \in FaultOutcomes

\* C12: a lookup that failed for a reason other than the account not
\* existing is never followed by a request to create an account for the same
\* e-mail address, that is, the failure was not taken for not-found.
C12_NeverMasked ==
    \A i \in 1..Len(svc_calls) :
        FailedCall(i, {"lookup"})
            => \A j \in (i + 1)..Len(svc_calls) :
                   ~(svc_calls[j].op = "create" /\ svc_calls[j].email = svc_calls[i].email)

\* C13: once a lookup or a create has failed, the operation has ended by
\* raising that failure to its caller and the failed request is the last
\* one made.
C13_Propagated ==
    \A i \in 1..Len(svc_calls) :
        FailedCall(i, {"lookup", "create"})
            => /\ i = Len(svc_calls)
               /\ pc = "raised"
               /\ IsRaise(error)

\* C14: get_workers either returns every worker of the directory exactly
\* once and in the directory's order, or raises having returned nothing; the
\* collection handed to the resolver and the hierarchy builder is never a
\* part of the directory.
C14_AllOrNothing ==
    /\ pc = "fetched" => fetched = List(upstream)
    /\ pc # "fetched" => fetched = None
    /\ pc = "raised" => workers = <<>>
\* a directory of two full pages was fetched with a third, empty page
C14_Witness ==
    /\ pc = "fetched"
    /\ Len(upstream) = 2 * limit
    /\ offset = 2 * limit
    /\ fetched = List(upstream)
\* the first reportsTo structure of the first assignment of w
FirstOf(v) == IF IsList(v) THEN (IF v.xs # <<>> THEN v.xs[1] ELSE EmptyDict) ELSE v
FirstRef(w) == FirstOf(Get(Item0(Get(w, "workAssignments")), "reportsTo"))
AssocIn(v) == IF IsDict(v) THEN Get(v, "associateOID") ELSE None
ValueIn(position) ==
    IF IsDict(position)
    THEN (IF Truthy(Get(position, "idValue")) THEN Get(position, "idValue")
          ELSE Get(position, "positionID"))
    ELSE position
\* the preferred source of ref that is present and not empty
Preferred(person_assoc, own_assoc, position) ==
    IF Truthy(person_assoc) THEN person_assoc
    ELSE IF Truthy(own_assoc) THEN own_assoc
    ELSE IF Truthy(position) THEN position
    ELSE None
PreferredOf(ref) ==
    Preferred(AssocIn(FirstOf(Get(ref, "person"))), Get(ref, "associateOID"),
              ValueIn(Get(ref, "positionID")))
ManagerExtracted ==
    Returned /\ called = "_extract_manager_id_from_assignment" /\ arg \in PriorityRecords

UsableIn(v) ==
    IsList(v) /\ \E i \in 1..Len(v.xs) : IsDict(v.xs[i]) /\ Truthy(Get(v.xs[i], "emailUri"))
UsableInComm(comm) ==
    IsDict(comm) /\ (UsableIn(Get(comm, "emails")) \/ UsableIn(Get(comm, "email")))
AnyUsable(w) ==
    IF HasKey(w, "person")
    THEN \/ UsableInComm(Get(Get(w, "person"), "communications"))
         \/ UsableInComm(Get(Get(w, "person"), "communication"))
    ELSE UsableInComm(Get(w, "businessCommunication"))
EmailExtracted(f) == Returned /\ called = f /\ arg \in FallThroughRecords

\* C16: when any candidate e-mail substructure of the record holds a
\* non-empty address, extract_email (worker_work_email for the business
\* addresses) returns an address, whatever empty or value-less substructures
\* and objects come before it.
C16_FallThrough ==
    /\ EmailExtracted("extract_email") /\ HasKey(arg, "person") /\ AnyUsable(arg)
           => Truthy(ret)
    /\ EmailExtracted("worker_work_email") /\ HasKey(arg, "businessCommunication")
           /\ AnyUsable(arg)
           => Truthy(ret)

\* C17: in every bucket of the Hierarchy Mapping the records stand in the
\* order of the input collection: of two records of a bucket, the one
\* earlier in the bucket is the one earlier in workers.
C17_StableOrder ==
    Built_ =>
        \A e \in 1..Len(manager_map) :
            \A a, b \in 1..Len(manager_map[e][2]) :
                a < b <=> manager_map[e][2][a] < manager_map[e][2][b]
\* C17 witness: a manager's bucket holds two records, the third record of
\* the collection after the second
C17_Witness ==
    /\ Built_
    /\ \E e \in 1..Len(manager_map) :
           KeyOfEntry(e) # None /\ manager_map[e][2] = <<2, 3>>
\* the record at position i names a manager that no record is identified by
Ghost(i) ==
    /\ HasId(i)
    /\ Truthy(ManagerRef(workers[i]))
    /\ ~MapHas(worker_map, ManagerRef(workers[i]))
Ghosts == {i \in Positions : Ghost(i)}
\* the identifiers of the records print_org_tree has printed and descended into
EmittedIds == {calls[n] : n \in 2..Len(calls)}
\* print_org_tree was called on its own with this root
TreeCalled(root) == log = <<>> /\ calls # <<>> /\ calls[1] = root

\* no two records of the collection have the same identifier
UniqueIds == Cardinality(DistinctIds) = NumIdentified

CycleFrom(root) == \E m \in {root} \cup Descendants(root) : m \in Descendants(m)

\* C19 as stated: with any cycle in the manager graph the render does not
\* come to its end.
C19_Original == (Rendering /\ ~Acyclic) => pc # "done"

\* C19 (amended): a render comes to its end only if no cycle of the manager
\* graph can be reached from its root, and it exceeds the recursion limit
\* only if one can.
C19_CycleOverflows ==
    /\ (pc = "done" /\ calls # <<>>) => ~CycleFrom(calls[1])
    /\ pc = "overflow" => CycleFrom(calls[1])
\* C19 witness: the render from a1, a record that is its own manager, has
\* nested to the recursion limit and raised
C19_Witness ==
    /\ pc = "overflow"
    /\ calls[1] = Str(sA1)
    /\ Str(sA1) \in ChildIds(Str(sA1))
    /\ Len(stack) = RecursionLimit
\* the full chart is being rendered, or was, from a collection whose
\* identified records have pairwise distinct identifiers
FullChartUnique == TreeCalled(None) /\ UniqueIds

\* C20: when the identified records have pairwise distinct identifiers, the
\* render of the full chart from the None root never exceeds the recursion
\* limit, passes no identifier to print_org_tree twice (so prints no record
\* twice) and comes to its end, whether or not manager references form
\* cycles.
C20_FullChartTerminates ==
    /\ [](FullChartUnique => (pc # "overflow" /\ NoRevisit))
    /\ (FullChartUnique ~> pc = "done")
\* C20 witness: the full chart of a collection with distinct identifiers
\* and a record that is its own manager was rendered to its end, the record
\* outside the cycle printed
C20_Witness ==
    /\ pc = "done"
    /\ FullChartUnique
    /\ ~Acyclic
    /\ out # <<>>

---------------------------------------------------------------------------
(* The importer (EmployeeImporter) *)

\* what get_user_by_email made of the i-th request, a lookup
LookupReturned(i) ==
    get_user_by_email(_make_request(svc_calls[i].outcome, User(svc_calls[i].email)))
\* the user id the request before the j-th left the import with
IdBefore(j) ==
    IF svc_calls[j - 1].op = "enroll" THEN svc_calls[j - 1].email
    ELSE IF svc_calls[j - 1].op = "lookup" THEN LookupReturned(j - 1).id
    ELSE create_user(svc_calls[j - 1].outcome, svc_calls[j - 1].email).id

\* C21: a create request is made only right after the lookup of the same
\* e-mail address returned None, hence at most once in the import of one
\* employee; after a lookup that returned an account no create follows, the
\* employee's status is 'skipped' with the id of that account, and every
\* enrolment request of the import carries the id the import holds.
C21_CreateOnceAfterNotFound ==
    /\ \A j \in 1..Len(svc_calls) :
           svc_calls[j].op = "create"
               => /\ j > 1
                  /\ svc_calls[j - 1].op = "lookup"
                  /\ svc_calls[j - 1].email = svc_calls[j].email
                  /\ LookupReturned(j - 1) = None
    /\ \A j \in 2..Len(svc_calls) :
           /\ (svc_calls[j - 1].op = "lookup" /\ IsUser(LookupReturned(j - 1)))
                  => svc_calls[j].op # "create"
           /\ svc_calls[j].op = "enroll" => svc_calls[j].email = IdBefore(j)
    /\ (/\ pc \in {"imp_enroll", "imp_finish"}
        /\ svc_calls # <<>>
        /\ svc_calls[Len(svc_calls)].op = "lookup"
        /\ IsUser(LookupReturned(Len(svc_calls))))
           => /\ result.status = "skipped"
              /\ result.user_id = UserId(result.email)
\* C21 witness: one employee's account was created after a lookup that
\* found none, another's was found and used for two enrolments without a
\* create
C21_Witness ==
    /\ pc = "done"
    /\ Len(import_log) = 2
    /\ import_log[1].status = "success"
    /\ import_log[2].status = "skipped"
    /\ import_log[2].courses_assigned = <<1, 2>>
    /\ Cardinality({j \in 1..Len(svc_calls) : svc_calls[j].op = "create"}) = 1
    /\ \E j \in 2..Len(svc_calls) :
           /\ svc_calls[j].op = "enroll"
           /\ svc_calls[j - 1].op = "lookup"
           /\ svc_calls[j].email = UserId(import_log[2].email)

\* import_from_list is over: it returned its summary or raised
Imported == pc \in {"done", "raised"} /\ summary # None
\* the enrolment errors of a log entry
EnrolErrors(entry) ==
    Cardinality({n \in 1..Len(entry.errors) : entry.errors[n] = "Failed to assign course"})

\* C22: once import_from_list is over, the summary counts add up to its
\* total, the number of employees; import_log holds one entry per employee
\* in input order, each with status success, skipped or failed; and an
\* entry with an account has, for every course, either the course assigned
\* or an enrolment error, its status being that of the account step.
C22_SummaryAndLog ==
    Imported =>
        /\ summary.total = Len(employees)
        /\ summary.total = summary.success + summary.skipped + summary.failed
        /\ Len(import_log) = Len(employees)
        /\ \A k \in 1..Len(import_log) :
               /\ k <= Len(employees)
               /\ import_log[k].email = Get(employees[k], "email")
               /\ import_log[k].status \in {"success", "skipped", "failed"}
               /\ import_log[k].user_id # None =>
                      /\ import_log[k].status \in {"success", "skipped"}
                      /\ Len(import_log[k].courses_assigned) + EnrolErrors(import_log[k])
                             = Len(courses_to_assign)
=============================================================================
